---- MODULE Spec2Model ----
(***************************************************************************)
(* A model of nlptk: Document construction (src/corpus.rs), the token      *)
(* type (src/token.rs) and the n-gram / vocabulary functions.              *)
(*                                                                         *)
(* A byte slice &[u8] is modelled as [ptr, len]: ptr is the 0-based offset *)
(* of its first byte in the document's byte vector, len its length.  A     *)
(* line (a slice of tokens) is modelled the same way, as an offset and a   *)
(* length in the document's token vector.                                  *)
(***************************************************************************)
EXTENDS Integers, Sequences, FiniteSets, TLC

\* ------------------------------------------------------------------ bounds
\* Longest generated byte buffer.
MaxLen == 4
\* Longest token stream handed to unk.
MaxUnk == 6

\* --------------------------------------------------------------- constants
\* b'\n', the sentence delimiter.
NEWLINE == 10
\* b' ', the word delimiter.
SPACE == 32
\* The glyph a Null token is displayed as (U+03B5).
EPSILON == 949
\* The glyph an Unknown token is displayed as (U+FFFD).
REPLACEMENT == 65533

\* Bytes the generated buffers are made of: the two delimiters, a carriage
\* return (13) and the letter a (97).
Alphabet == {NEWLINE, SPACE, 13, 97}

\* Language type parameters.
Languages == {"DefaultLanguage", "English"}

\* "The soup pleased the dog.\nThe cat caught the rat."
ExampleText ==
  << 84,104,101,32,115,111,117,112,32,112,108,101,97,115,101,100,32,116,104,
     101,32,100,111,103,46,10,84,104,101,32,99,97,116,32,99,97,117,103,104,
     116,32,116,104,101,32,114,97,116,46 >>

\* The text of padded's documentation test: the second line is indented.
DocTestText ==
  << 84,104,101,32,115,111,117,112,32,112,108,101,97,115,101,100,32,116,104,
     101,32,100,111,103,46,10,32,32,32,32,32,32,32,32,32,32,32,32,32,32,32,32,
     32,32,32,32,32,32,32,32,32,32,84,104,101,32,99,97,116,32,99,97,117,103,
     104,116,32,116,104,101,32,114,97,116,46 >>

\* The string the documentation test expects, as code points:
\* "ε The soup pleased the dog. ε The cat caught the rat. ε"
DocTestExpected ==
  << 949,32,84,104,101,32,115,111,117,112,32,112,108,101,97,115,101,100,32,
     116,104,101,32,100,111,103,46,32,949,32,84,104,101,32,99,97,116,32,99,
     97,117,103,104,116,32,116,104,101,32,114,97,116,46,32,949 >>

RECURSIVE BuffersOfLen(_)
BuffersOfLen(n) ==
  IF n = 0 THEN {<< >>}
  ELSE {Append(b, c) : b \in BuffersOfLen(n - 1), c \in Alphabet}

Buffers ==
  UNION {BuffersOfLen(n) : n \in 0..MaxLen} \cup {ExampleText, DocTestText}

VARIABLES
  input,   \* the bytes handed to the constructor (in memory, or a source's content)
  doc,     \* the Document built from it, or NoDocument
  call     \* the last library call: its name, arguments and return value

vars == <<input, doc, call>>

\* No document: nothing was built, or construction failed.
NoDocument ==
  [bytes |-> << >>, tokens |-> << >>, lines |-> << >>, language |-> "DefaultLanguage",
   built |-> FALSE]

NoCall ==
  [op |-> "none", arg |-> << >>, vocabulary |-> {}, ret |-> << >>,
   language |-> "DefaultLanguage"]

\* ------------------------------------------------------------------ tokens

Slice(p, n) == [ptr |-> p, len |-> n]

\* Word { chars, language: PhantomData }
Word(chars, L) == [chars |-> chars, language |-> L]

\* Token::Word(chars.into())
TokenFrom(chars, L) == [variant |-> "Word", word |-> Word(chars, L), language |-> L]

Null(L) == [variant |-> "Null", language |-> L]

Unknown(L) == [variant |-> "Unknown", language |-> L]

\* The bytes a slice points at, read from the document's byte vector.
Deref(bytes, chars) == SubSeq(bytes, chars.ptr + 1, chars.ptr + chars.len)

Min(S) == CHOOSE x \in S : \A y \in S : x <= y

\* Split as slice::split_terminator would do it: an empty last subslice is
\* left out.
RECURSIVE SplitTerminator(_, _, _, _)
SplitTerminator(bytes, from, to, d) ==
  LET hits == {i \in from..(to - 1) : bytes[i + 1] = d}
  IN  IF hits = {} THEN (IF from = to THEN << >> ELSE << Slice(from, to - from) >>)
      ELSE << Slice(from, Min(hits) - from) >>
             \o SplitTerminator(bytes, Min(hits) + 1, to, d)

\* slice::split(|&c| c == d) over bytes[from..to): the subslices between
\* the bytes equal to d, the empty ones included.
RECURSIVE Split(_, _, _, _)
Split(bytes, from, to, d) ==
  LET hits == {i \in from..(to - 1) : bytes[i + 1] = d}
  IN  IF hits = {} THEN << Slice(from, to - from) >>
      ELSE << Slice(from, Min(hits) - from) >> \o Split(bytes, Min(hits) + 1, to, d)

\* FilterNonEmpty with the filter left out.
FilterNothing(ws) == ws

\* .filter(|w| !w.is_empty())
RECURSIVE FilterNonEmpty(_)
FilterNonEmpty(ws) ==
  IF ws = << >> THEN << >>
  ELSE IF Head(ws).len = 0 THEN FilterNonEmpty(Tail(ws))
  ELSE << Head(ws) >> \o FilterNonEmpty(Tail(ws))

\* SentenceTokens with a carriage return that ends a word cut off it.
SentenceTokensTrimmed(bytes, sentence, L) ==
  LET ws == FilterNonEmpty(Split(bytes, sentence.ptr, sentence.ptr + sentence.len, SPACE))
      trim(w) == IF bytes[w.ptr + w.len] = 13 THEN Slice(w.ptr, w.len - 1) ELSE w
  IN  [i \in 1..Len(ws) |-> TokenFrom(trim(ws[i]), L)]

\* The words of one sentence, as tokens.
SentenceTokens(bytes, sentence, L) ==
  LET ws == FilterNonEmpty(Split(bytes, sentence.ptr, sentence.ptr + sentence.len, SPACE))
  IN  [i \in 1..Len(ws) |-> TokenFrom(ws[i], L)]

\* The for loop of Document::from over the sentences from the k-th on:
\* tokens.extend(..); lines.push((s, e)).
RECURSIVE FromLoop(_, _, _, _, _, _)
FromLoop(bytes, sentences, k, tokens, lines, L) ==
  IF k > Len(sentences) THEN [tokens |-> tokens, lines |-> lines]
  ELSE LET s == Len(tokens)
           extended == tokens \o SentenceTokens(bytes, sentences[k], L)
           e == Len(extended)
       IN  FromLoop(bytes, sentences, k + 1, extended, Append(lines, <<s, e>>), L)

\* LineSlice with every line starting at the first token: &tokens[..e]
LineSliceFromStart(se) == Slice(0, se[2])

\* &tokens[s..e]
LineSlice(se) == Slice(se[1], se[2] - se[1])

\* Document::from
From(bytes, L) ==
  LET r == FromLoop(bytes, Split(bytes, 0, Len(bytes), NEWLINE), 1, << >>, << >>, L)
  IN  [bytes  |-> bytes,
       tokens |-> r.tokens,
       lines  |-> [i \in 1..Len(r.lines) |-> LineSlice(r.lines[i])],
       language |-> L,
       built  |-> TRUE]

\* Document::tokens
Tokens(d) == d.tokens

\* Document::lines: each line is the slice of tokens it points at.
Lines(d) ==
  [i \in 1..Len(d.lines) |->
     SubSeq(d.tokens, d.lines[i].ptr + 1, d.lines[i].ptr + d.lines[i].len)]

\* ------------------------------------------------------------ io::Read

\* A readable source: its content, and the read call (counted from 0) that
\* fails with an I/O error, or NoFail.
NoFail == 0 - 1

\* Read::read_to_end: each read call appends one byte to the buffer; the
\* call numbered failAt fails, and the buffer then keeps the bytes read so far.
RECURSIVE ReadToEnd(_, _, _)
ReadToEnd(data, failAt, buf) ==
  IF Len(buf) = failAt THEN [ok |-> FALSE, bytes |-> buf]
  ELSE IF Len(buf) = Len(data) THEN [ok |-> TRUE, bytes |-> buf]
  ELSE ReadToEnd(data, failAt, Append(buf, data[Len(buf) + 1]))

\* TryFrom with the result of read_to_end ignored.
TryFromIgnoringError(data, failAt, L) ==
  [result |-> "Ok", document |-> From(ReadToEnd(data, failAt, << >>).bytes, L)]

\* Document::try_from: i.read_to_end(&mut bytes)?; Ok(bytes.into())
TryFrom(data, failAt, L) ==
  LET r == ReadToEnd(data, failAt, << >>)
  IN  IF r.ok THEN [result |-> "Ok", document |-> From(r.bytes, L)]
      ELSE [result |-> "Err", document |-> NoDocument]

\* -------------------------------------------------- equality and ordering

\* #[derive(PartialEq)] on Word: the bytes pointed at are compared, and the
\* PhantomData fields are always equal.
WordEq(bytes, a, b) == Deref(bytes, a.chars) = Deref(bytes, b.chars)

\* #[derive(PartialEq)] on Token
TokenEq(bytes, a, b) ==
  /\ a.variant = b.variant
  /\ a.variant = "Word" => WordEq(bytes, a.word, b.word)

\* The position of a variant in the enum's declaration.
Discriminant(t) ==
  CASE t.variant = "Word" -> 0
    [] t.variant = "Null" -> 1
    [] t.variant = "Unknown" -> 2

\* Ord on byte slices: lexicographic; "Less", "Equal" or "Greater".
RECURSIVE SliceCmp(_, _)
SliceCmp(x, y) ==
  IF x = << >> /\ y = << >> THEN "Equal"
  ELSE IF x = << >> THEN "Less"
  ELSE IF y = << >> THEN "Greater"
  ELSE IF Head(x) < Head(y) THEN "Less"
  ELSE IF Head(x) > Head(y) THEN "Greater"
  ELSE SliceCmp(Tail(x), Tail(y))

\* #[derive(Ord)] on Token: by variant, then by the words' bytes.
TokenCmp(bytes, a, b) ==
  IF Discriminant(a) < Discriminant(b) THEN "Less"
  ELSE IF Discriminant(a) > Discriminant(b) THEN "Greater"
  ELSE IF a.variant = "Word"
       THEN SliceCmp(Deref(bytes, a.word.chars), Deref(bytes, b.word.chars))
  ELSE "Equal"

\* Loan written as a match with the Unknown arm forgotten.
LoanWithoutUnknown(t, M) ==
  IF t.variant = "Word" THEN TokenFrom(t.word.chars, M) ELSE Null(M)

\* Token::loan: transmute to Token<M>; every field but the type parameter
\* is carried over bit for bit.
Loan(t, M) ==
  IF t.variant = "Word"
  THEN [t EXCEPT !.language = M, !.word.language = M]
  ELSE [t EXCEPT !.language = M]

\* ----------------------------------------------------------------- display

\* Display for Word: each byte as the character with that code point.
WordFmt(bytes, w) ==
  LET cs == Deref(bytes, w.chars) IN [i \in 1..Len(cs) |-> cs[i]]

\* Display for Token
TokenFmt(bytes, t) ==
  CASE t.variant = "Null" -> << EPSILON >>
    [] t.variant = "Unknown" -> << REPLACEMENT >>
    [] t.variant = "Word" -> WordFmt(bytes, t.word)

\* Itertools::join(" "): the elements' displays with sep between them.
RECURSIVE Join(_, _, _)
Join(bytes, ts, sep) ==
  IF ts = << >> THEN << >>
  ELSE IF Len(ts) = 1 THEN TokenFmt(bytes, ts[1])
  ELSE TokenFmt(bytes, Head(ts)) \o sep \o Join(bytes, Tail(ts), sep)

\* ------------------------------------------------------- n-grams and unk

\* HashSet::contains, by the tokens' Eq.
Contains(bytes, vocabulary, word) ==
  \E v \in vocabulary : TokenEq(bytes, v, word)

\* Unk as a filter: the tokens the vocabulary lacks are dropped.
UnkFilter(bytes, tokens, vocabulary, L) ==
  SelectSeq(tokens, LAMBDA t : Contains(bytes, vocabulary, t))

\* Unk with the markers exempted: only words are looked up.
UnkExemptMarkers(bytes, tokens, vocabulary, L) ==
  [i \in 1..Len(tokens) |->
     IF tokens[i].variant # "Word" \/ Contains(bytes, vocabulary, tokens[i])
     THEN tokens[i] ELSE Unknown(L)]

\* unk: tokens.map(|word| if vocabulary.contains(&word) {word} else {Unknown})
Unk(bytes, tokens, vocabulary, L) ==
  [i \in 1..Len(tokens) |->
     IF Contains(bytes, vocabulary, tokens[i]) THEN tokens[i] ELSE Unknown(L)]

\* unigrams
Unigrams(tokens) == tokens

\* bigrams: tokens.cloned().tuple_windows::<(_, _)>()
RECURSIVE TupleWindows(_)
TupleWindows(tokens) ==
  IF Len(tokens) < 2 THEN << >>
  ELSE << <<tokens[1], tokens[2]>> >> \o TupleWindows(Tail(tokens))

\* Bigrams by Itertools::tuples: pairs that do not overlap.
RECURSIVE Tuples(_)
Tuples(tokens) ==
  IF Len(tokens) < 2 THEN << >>
  ELSE << <<tokens[1], tokens[2]>> >> \o Tuples(Tail(Tail(tokens)))

BigramsTuples(tokens) == Tuples(tokens)

Bigrams(tokens) == TupleWindows(tokens)

\* sentence.iter().cloned().chain(once(Token::Null)), flattened
RECURSIVE PaddedSentences(_, _)
PaddedSentences(lines, L) ==
  IF lines = << >> THEN << >>
  ELSE Head(lines) \o << Null(L) >> \o PaddedSentences(Tail(lines), L)

\* Padded without the leading Null.
PaddedNoLeadingNull(lines, L) == PaddedSentences(lines, L)

\* padded: once(Token::Null).chain(..)
Padded(lines, L) == << Null(L) >> \o PaddedSentences(lines, L)

\* ----------------------------------------------------------------- actions

\* The calls whose return value is a stream of tokens of the document's
\* language.
StreamOps == {"tokens", "padded", "unk"}

Range(f) == {f[i] : i \in DOMAIN f}

\* HashSet::from_iter over tokens picked from a stream: of equal tokens the
\* set keeps the one inserted first, so each token of the set is the first
\* of the stream equal to it.
IsFirstOccurrence(bytes, tokens, t) ==
  \E i \in 1..Len(tokens) :
    /\ tokens[i] = t
    /\ \A j \in 1..(i - 1) : ~TokenEq(bytes, tokens[j], t)

\* The vocabularies unk is tried with: the sets collected from tokens of
\* the stream followed by the two markers.
Vocabularies(bytes, tokens, L) ==
  LET candidates == tokens \o << Null(L), Unknown(L) >>
  IN  SUBSET {t \in Range(candidates) : IsFirstOccurrence(bytes, candidates, t)}

Init ==
  /\ input \in Buffers
  /\ doc = NoDocument
  /\ call = NoCall

\* let d: Document<L> = bytes.into();
DoFrom ==
  /\ call.op = "none"
  /\ \E L \in Languages :
       /\ doc' = From(input, L)
       /\ call' = [NoCall EXCEPT !.op = "from", !.language = L]
  /\ UNCHANGED input

\* let d: Document<L> = reader.try_into()?;  the source holds the bytes of
\* input, and one of its read calls may fail.
DoTryFrom ==
  /\ call.op = "none"
  /\ \E L \in Languages : \E failAt \in {NoFail} \cup (0..Len(input)) :
       LET r == TryFrom(input, failAt, L)
       IN  /\ doc' = r.document
           /\ call' = [NoCall EXCEPT !.op = "try_from", !.arg = failAt,
                                      !.ret = r.result, !.language = L]
  /\ UNCHANGED input

\* d.tokens()
DoTokens ==
  /\ doc.built
  /\ call' = [NoCall EXCEPT !.op = "tokens", !.ret = Tokens(doc),
                            !.language = doc.language]
  /\ UNCHANGED <<input, doc>>

\* padded(d.lines())
DoPadded ==
  /\ doc.built
  /\ call' = [NoCall EXCEPT !.op = "padded", !.arg = Lines(doc),
                            !.ret = Padded(Lines(doc), doc.language),
                            !.language = doc.language]
  /\ UNCHANGED <<input, doc>>

\* unigrams(stream)
DoUnigrams ==
  /\ call.op \in StreamOps
  /\ call' = [NoCall EXCEPT !.op = "unigrams", !.arg = call.ret,
                            !.ret = Unigrams(call.ret), !.language = call.language]
  /\ UNCHANGED <<input, doc>>

\* unk(stream, &vocabulary)
DoUnk ==
  /\ call.op \in StreamOps
  /\ Len(call.ret) <= MaxUnk
  /\ \E V \in Vocabularies(doc.bytes, call.ret, call.language) :
       call' = [NoCall EXCEPT !.op = "unk", !.arg = call.ret, !.vocabulary = V,
                              !.ret = Unk(doc.bytes, call.ret, V, call.language),
                              !.language = call.language]
  /\ UNCHANGED <<input, doc>>

\* bigrams(&stream)
DoBigrams ==
  /\ call.op \in StreamOps
  /\ call' = [NoCall EXCEPT !.op = "bigrams", !.arg = call.ret,
                            !.ret = Bigrams(call.ret), !.language = call.language]
  /\ UNCHANGED <<input, doc>>

\* stream.map(Token::loan::<M>)
DoLoan ==
  /\ call.op \in StreamOps
  /\ \E M \in Languages :
       call' = [NoCall EXCEPT !.op = "loan", !.arg = call.ret,
                              !.ret = [i \in 1..Len(call.ret) |-> Loan(call.ret[i], M)],
                              !.language = M]
  /\ UNCHANGED <<input, doc>>

Next ==
  \/ DoFrom
  \/ DoTryFrom
  \/ DoTokens
  \/ DoPadded
  \/ DoUnigrams
  \/ DoUnk
  \/ DoBigrams
  \/ DoLoan

Spec == Init /\ [][Next]_vars

\* ------------------------------------------------------------------ claims

IsDelimiter(b) == b = SPACE \/ b = NEWLINE

\* The maximal runs of non-delimiter bytes of a buffer, as <<offset, length>>.
Runs(bytes) ==
  {r \in (0..Len(bytes)) \X (1..Len(bytes)) :
     /\ r[1] + r[2] <= Len(bytes)
     /\ \A i \in (r[1] + 1)..(r[1] + r[2]) : ~IsDelimiter(bytes[i])
     /\ r[1] = 0 \/ IsDelimiter(bytes[r[1]])
     /\ r[1] + r[2] = Len(bytes) \/ IsDelimiter(bytes[r[1] + r[2] + 1])}

\* The newline-delimited segment (counted from 1) the i-th byte lies in.
SegmentOf(bytes, i) == 1 + Cardinality({j \in 1..(i - 1) : bytes[j] = NEWLINE})

RECURSIVE Concat(_)
Concat(seqs) == IF seqs = << >> THEN << >> ELSE Head(seqs) \o Concat(Tail(seqs))

RECURSIVE SumLen(_)
SumLen(seqs) == IF seqs = << >> THEN 0 ELSE Len(Head(seqs)) + SumLen(Tail(seqs))

\* C1: the lines of a document partition its tokens: the first line starts
\* at token 0, each line ends where the next starts, the last ends at the
\* number of tokens, and the lines concatenated in order are the tokens.
C1_LinesPartitionTokens ==
  doc.built =>
    LET n == Len(doc.lines)
    IN  /\ n >= 1
        /\ doc.lines[1].ptr = 0
        /\ \A i \in 1..n : doc.lines[i].len >= 0
        /\ \A i \in 1..(n - 1) : doc.lines[i].ptr + doc.lines[i].len = doc.lines[i + 1].ptr
        /\ doc.lines[n].ptr + doc.lines[n].len = Len(Tokens(doc))
        /\ Concat(Lines(doc)) = Tokens(doc)

\* A document with two non-empty lines after an empty one.
C1_Witness ==
  /\ doc.built
  /\ Len(doc.lines) >= 3
  /\ doc.lines[1].len = 0
  /\ doc.lines[2].len > 0
  /\ doc.lines[3].len > 0

\* C2: the tokens of a document are, in buffer order, exactly the maximal
\* runs of bytes other than 0x20 and 0x0A; a carriage return is part of the
\* token it ends.
C2_TokensAreTheRuns ==
  doc.built =>
    /\ Len(doc.tokens) = Cardinality(Runs(doc.bytes))
    /\ \A i \in 1..Len(doc.tokens) :
         /\ doc.tokens[i].variant = "Word"
         /\ <<doc.tokens[i].word.chars.ptr, doc.tokens[i].word.chars.len>> \in Runs(doc.bytes)
    /\ \A i \in 1..(Len(doc.tokens) - 1) :
         doc.tokens[i].word.chars.ptr < doc.tokens[i + 1].word.chars.ptr

\* A token made of a letter and the carriage return that follows it,
\* before a newline.
C2_Witness ==
  /\ doc.built
  /\ \E i \in 1..Len(doc.tokens) :
       /\ Deref(doc.bytes, doc.tokens[i].word.chars) = << 97, 13 >>
       /\ doc.tokens[i].word.chars.ptr + 2 < Len(doc.bytes)
       /\ doc.bytes[doc.tokens[i].word.chars.ptr + 3] = NEWLINE

\* C3: a document has one line per newline-delimited segment of its buffer
\* (the number of 0x0A bytes plus one); a segment with no byte other than
\* spaces gives a line of length 0; the empty buffer gives one line of
\* length 0 and no token.
C3_OneLinePerSegment ==
  doc.built =>
    /\ Len(doc.lines) = Cardinality({i \in 1..Len(doc.bytes) : doc.bytes[i] = NEWLINE}) + 1
    /\ \A k \in 1..Len(doc.lines) :
         (\A i \in 1..Len(doc.bytes) :
            SegmentOf(doc.bytes, i) = k => IsDelimiter(doc.bytes[i]))
         => doc.lines[k].len = 0
    /\ doc.bytes = << >> =>
         /\ Len(doc.lines) = 1
         /\ doc.lines[1].len = 0
         /\ doc.tokens = << >>

\* A buffer that starts and ends with a newline around one word: three
\* lines, the first and the last of length 0.
C3_Witness ==
  /\ doc.built
  /\ Len(doc.bytes) >= 3
  /\ doc.bytes[1] = NEWLINE
  /\ doc.bytes[Len(doc.bytes)] = NEWLINE
  /\ Len(doc.lines) = 3
  /\ doc.lines[2].len = 1

\* The index in padded's output of the Null that precedes sentence k.
PaddedOffset(lines, k) == 1 + SumLen(SubSeq(lines, 1, k - 1)) + (k - 1)

\* C4: padded yields a Null, then each sentence's tokens followed by a
\* Null: 1 + (number of tokens) + (number of sentences) tokens in all; for
\* the two example texts that is 13 tokens, displayed and joined by spaces
\* as "ε The soup pleased the dog. ε The cat caught the rat. ε".
C4_PaddedShape ==
  call.op = "padded" =>
    /\ Len(call.ret) = 1 + SumLen(call.arg) + Len(call.arg)
    /\ call.ret[1] = Null(call.language)
    /\ \A k \in 1..Len(call.arg) :
         /\ SubSeq(call.ret, PaddedOffset(call.arg, k) + 1,
                   PaddedOffset(call.arg, k) + Len(call.arg[k])) = call.arg[k]
         /\ call.ret[PaddedOffset(call.arg, k + 1)] = Null(call.language)
    /\ input \in {ExampleText, DocTestText} =>
         /\ Len(call.ret) = 13
         /\ Join(doc.bytes, call.ret, << 32 >>) = DocTestExpected

\* padded was applied to the lines of the documentation test's text.
C4_Witness ==
  /\ call.op = "padded"
  /\ input = DocTestText
  /\ Len(call.arg) = 2

\* C5: bigrams yields max(0, n - 1) pairs for n tokens; pair i is tokens i
\* and i + 1, so each pair's second token is the next pair's first.
C5_BigramsAreAdjacentPairs ==
  call.op = "bigrams" =>
    /\ Len(call.ret) = (IF Len(call.arg) = 0 THEN 0 ELSE Len(call.arg) - 1)
    /\ \A i \in 1..Len(call.ret) : call.ret[i] = << call.arg[i], call.arg[i + 1] >>
    /\ \A i \in 1..(Len(call.ret) - 1) : call.ret[i][2] = call.ret[i + 1][1]

\* bigrams was applied to four tokens or more.
C5_Witness ==
  /\ call.op = "bigrams"
  /\ Len(call.arg) >= 4
  /\ Len(call.ret) >= 3

\* Whether the vocabulary of the call holds a token equal to t.
InVocabulary(t) ==
  \E v \in call.vocabulary :
    /\ v.variant = t.variant
    /\ t.variant = "Word" =>
         Deref(doc.bytes, v.word.chars) = Deref(doc.bytes, t.word.chars)

\* C6: unk keeps the length and the order of its input; token i of the
\* output is token i of the input when the vocabulary holds it, Unknown
\* otherwise; with a vocabulary holding every input token the output is the
\* input.
C6_UnkReplacesUnknownTokens ==
  call.op = "unk" =>
    /\ Len(call.ret) = Len(call.arg)
    /\ \A i \in 1..Len(call.arg) :
         /\ InVocabulary(call.arg[i]) => call.ret[i] = call.arg[i]
         /\ ~InVocabulary(call.arg[i]) => call.ret[i] = Unknown(call.language)
         /\ call.ret[i].variant = "Unknown" \/ InVocabulary(call.ret[i])
    /\ (\A i \in 1..Len(call.arg) : InVocabulary(call.arg[i])) => call.ret = call.arg

\* unk kept one word and replaced a later one.
C6_Witness ==
  /\ call.op = "unk"
  /\ \E i \in 1..Len(call.arg) : \E j \in (i + 1)..Len(call.arg) :
       /\ call.arg[i].variant = "Word"
       /\ call.ret[i] = call.arg[i]
       /\ call.arg[j].variant = "Word"
       /\ call.ret[j].variant = "Unknown"

\* C7: loan keeps a token's variant and, for a word, its bytes; the loaned
\* tokens are equal and ordered as the original ones are, and loaning back
\* to the original language gives the original token.
C7_LoanPreservesToken ==
  call.op = "loan" =>
    /\ Len(call.ret) = Len(call.arg)
    /\ \A i \in 1..Len(call.arg) :
         /\ call.ret[i].variant = call.arg[i].variant
         /\ call.ret[i].language = call.language
         /\ call.arg[i].variant = "Word" =>
              Deref(doc.bytes, call.ret[i].word.chars)
                = Deref(doc.bytes, call.arg[i].word.chars)
         /\ Loan(call.ret[i], call.arg[i].language) = call.arg[i]
         /\ \A j \in 1..Len(call.arg) :
              /\ TokenEq(doc.bytes, call.ret[i], call.ret[j])
                   = TokenEq(doc.bytes, call.arg[i], call.arg[j])
              /\ TokenCmp(doc.bytes, call.ret[i], call.ret[j])
                   = TokenCmp(doc.bytes, call.arg[i], call.arg[j])

\* A stream holding a word, a Null and an Unknown was loaned to another
\* language.
C7_Witness ==
  /\ call.op = "loan"
  /\ call.language # doc.language
  /\ \E i \in 1..Len(call.arg) : call.ret[i].variant = "Word"
  /\ \E i \in 1..Len(call.arg) : call.ret[i].variant = "Null"
  /\ \E i \in 1..Len(call.arg) : call.ret[i].variant = "Unknown"

\* C8: try_from gives the error when a read call fails, and then no
\* document (no bytes, tokens or lines); otherwise it gives the document
\* that from gives for the whole content of the source.
C8_TryFromAllOrNothing ==
  call.op = "try_from" =>
    /\ call.arg # NoFail => (call.ret = "Err" /\ doc = NoDocument)
    /\ call.arg = NoFail =>
         /\ call.ret = "Ok"
         /\ doc.bytes = input
         /\ doc = From(input, call.language)

\* A read call failed after two bytes of a longer source had been read.
C8_Witness ==
  /\ call.op = "try_from"
  /\ call.ret = "Err"
  /\ call.arg = 2
  /\ Len(input) > 2
  /\ ~doc.built

\* C9: every token of a document is a Word whose bytes lie within the
\* buffer, are at least one, and hold no 0x20 and no 0x0A; each token ends
\* before the next one starts.
C9_WordSpansInBounds ==
  doc.built =>
    /\ \A i \in 1..Len(doc.tokens) :
         LET chars == doc.tokens[i].word.chars
         IN  /\ doc.tokens[i].variant = "Word"
             /\ chars.ptr >= 0
             /\ chars.len >= 1
             /\ chars.ptr + chars.len <= Len(doc.bytes)
             /\ \A k \in (chars.ptr + 1)..(chars.ptr + chars.len) :
                  doc.bytes[k] # SPACE /\ doc.bytes[k] # NEWLINE
    /\ \A i \in 1..(Len(doc.tokens) - 1) :
         doc.tokens[i].word.chars.ptr + doc.tokens[i].word.chars.len
           <= doc.tokens[i + 1].word.chars.ptr

\* A document of two tokens from a buffer with two spaces between them.
C9_Witness ==
  /\ doc.built
  /\ Len(doc.tokens) = 2
  /\ \E i \in 1..(Len(doc.bytes) - 1) : doc.bytes[i] = SPACE /\ doc.bytes[i + 1] = SPACE

\* C10: unk treats the markers as it treats words: a Null of the input is
\* kept when the vocabulary holds Null and becomes Unknown when it does not,
\* and an Unknown of the input stays Unknown whether the vocabulary holds
\* Unknown or not.
C10_UnkDoesNotExemptMarkers ==
  call.op = "unk" =>
    \A i \in 1..Len(call.arg) :
      /\ call.arg[i].variant = "Null" =>
           call.ret[i].variant =
             (IF \E v \in call.vocabulary : v.variant = "Null" THEN "Null" ELSE "Unknown")
      /\ call.arg[i].variant = "Unknown" => call.ret[i].variant = "Unknown"

\* unk, given padded's output and a vocabulary holding a word but not Null,
\* turned a Null into Unknown and kept the word.
C10_Witness ==
  /\ call.op = "unk"
  /\ \A v \in call.vocabulary : v.variant # "Null"
  /\ \E i \in 1..Len(call.arg) :
       call.arg[i].variant = "Null" /\ call.ret[i].variant = "Unknown"
  /\ \E i \in 1..Len(call.arg) :
       call.arg[i].variant = "Word" /\ call.ret[i].variant = "Word"

====
